---- MODULE Spec2Model ----
(***************************************************************************)
(* Model of the unified-diff viewer of the admin review panel              *)
(* (frontend/components/AdminReviewPanel.tsx): DiffViewer parses a patch   *)
(* into rows with old/new line numbers, and a click on a row picks the     *)
(* line an inline comment is attached to (DiffFileBlock.selectedLine).     *)
(*                                                                         *)
(* A JavaScript string is modelled as a sequence of one-character strings. *)
(***************************************************************************)
EXTENDS Integers, Sequences, FiniteSets, TLC

VARIABLES patch, lines, i, oldLine, newLine, rendered, pc, selectedLine, lastClick,
          prevRows, blocks, page

(* prevRows is a history variable: the rows the previous render of the same *)
(* DiffViewer returned. blocks holds the DiffFileBlocks of a multi-file diff *)
(* (specification SpecBlocks); it is empty in the single-viewer Spec.        *)
(* page holds the React state of the component a page specification is      *)
(* about (review panel forms, api request, candidate start page, challenges *)
(* page, manage challenges page); it is empty in the diff specifications.   *)
vars == <<patch, lines, i, oldLine, newLine, rendered, pc, selectedLine, lastClick,
          prevRows, blocks, page>>

(* Bounds of the model *)
MaxLines == 3

(* JavaScript null of displayOld / displayNew / selectedLine; line numbers *)
(* are never negative (parseInt of [0-9]+, then += 1).                     *)
NULL == -1

NL == "\n"

----------------------------------------------------------------------------
(* String helpers *)

Digits == <<"0", "1", "2", "3", "4", "5", "6", "7", "8", "9">>

IsDigit(c) == \E d \in 1..10 : Digits[d] = c

DigitVal(c) == (CHOOSE d \in 1..10 : Digits[d] = c) - 1

(* \s of the regular expression *)
IsSpace(c) == c \in {" ", "\t"}

(* raw.startsWith(pre) *)
startsWith(s, pre) ==
    /\ Len(s) >= Len(pre)
    /\ \A k \in 1..Len(pre) : s[k] = pre[k]

(* raw.slice(1) *)
slice1(s) == IF Len(s) = 0 THEN <<>> ELSE SubSeq(s, 2, Len(s))

(* parseInt(str, 10) on a string of decimal digits *)
RECURSIVE parseInt(_)
parseInt(s) ==
    IF Len(s) = 0 THEN 0
    ELSE 10 * parseInt(SubSeq(s, 1, Len(s) - 1)) + DigitVal(s[Len(s)])

(* patch.split("\n"): a string without newline is one line, the empty one included *)
RECURSIVE split(_)
split(s) ==
    IF \A k \in 1..Len(s) : s[k] # NL THEN <<s>>
    ELSE LET p == CHOOSE k \in 1..Len(s) : s[k] = NL /\ \A j \in 1..(k - 1) : s[j] # NL
         IN  <<SubSeq(s, 1, p - 1)>> \o split(SubSeq(s, p + 1, Len(s)))

(* length of the run of digits of s that starts at position p: [0-9]+ is greedy *)
RECURSIVE DigitRun(_, _)
DigitRun(s, p) ==
    IF p <= Len(s) /\ IsDigit(s[p]) THEN 1 + DigitRun(s, p + 1) ELSE 0

(* position after the optional group (?:,[0-9]+)? tried at position p *)
OptCount_mandatory(s, p) ==
    IF p <= Len(s) /\ s[p] = "," /\ DigitRun(s, p + 1) >= 1
    THEN p + 1 + DigitRun(s, p + 1)
    ELSE Len(s) + 1

OptCount(s, p) ==
    IF p <= Len(s) /\ s[p] = "," /\ DigitRun(s, p + 1) >= 1
    THEN p + 1 + DigitRun(s, p + 1)
    ELSE p

At(s, p, c) == p <= Len(s) /\ s[p] = c

SpaceAt(s, p) == p <= Len(s) /\ IsSpace(s[p])

(* /@@\s-([0-9]+)(?:,[0-9]+)?\s\+([0-9]+)(?:,[0-9]+)?\s@@/ tried at position p: *)
(* the two captured groups, or <<>> when the pattern does not match there.      *)
MatchAt(s, p) ==
    LET d1 == DigitRun(s, p + 4)
        q  == OptCount(s, p + 4 + d1)
        d2 == DigitRun(s, q + 2)
        r  == OptCount(s, q + 2 + d2)
    IN  IF /\ At(s, p, "@") /\ At(s, p + 1, "@")
           /\ SpaceAt(s, p + 2)
           /\ At(s, p + 3, "-")
           /\ d1 >= 1
           /\ SpaceAt(s, q)
           /\ At(s, q + 1, "+")
           /\ d2 >= 1
           /\ SpaceAt(s, r)
           /\ At(s, r + 1, "@") /\ At(s, r + 2, "@")
        THEN <<SubSeq(s, p + 4, p + 3 + d1), SubSeq(s, q + 2, q + 1 + d2)>>
        ELSE <<>>

(* raw.match(re): the regular expression is not anchored, the leftmost match wins; *)
(* <<>> models the null of a failed match.                                         *)
match(s) ==
    IF \E p \in 1..Len(s) : MatchAt(s, p) # <<>>
    THEN LET p == CHOOSE p \in 1..Len(s) :
                     MatchAt(s, p) # <<>> /\ \A j \in 1..(p - 1) : MatchAt(s, j) = <<>>
         IN  MatchAt(s, p)
    ELSE <<>>

----------------------------------------------------------------------------
(* Inputs: patches built from a pool of lines *)

RECURSIVE Dec(_)
Dec(n) == IF n < 10 THEN <<Digits[n + 1]>> ELSE Dec(n \div 10) \o <<Digits[(n % 10) + 1]>>

(* the count OC / NC of a hunk header, NULL when it is absent *)
CountStr(c) == IF c = NULL THEN <<>> ELSE <<",">> \o Dec(c)

(* the hunk header @@ -O[,OC] +N[,NC] @@ *)
MkHeader(O, OC, N, NC) ==
    <<"@", "@", " ", "-">> \o Dec(O) \o CountStr(OC) \o <<" ", "+">> \o Dec(N)
        \o CountStr(NC) \o <<" ", "@", "@">>

(* the well-formed hunk headers of the pool, as <<O, OC, N, NC>> *)
HeaderArgs == { <<1, 3, 1, 4>>, <<10, 5, 20, 5>>, <<0, 0, 1, NULL>> }

HeaderLines == { MkHeader(h[1], h[2], h[3], h[4]) : h \in HeaderArgs }

(* lines that begin with @@ and do not contain the hunk-header pattern *)
MalformedLines ==
    { <<"@", "@", " ", "-", "x", " ", "+", "1", " ", "@", "@">>,
      <<"@", "@", " ", "-", "1", ",", " ", "+", "2", " ", "@", "@">> }

(* a header whose pattern is found after other text: the match is not anchored *)
EmbeddedLines == { <<"@", "@", "x">> \o MkHeader(5, NULL, 6, NULL) }

ContentLines ==
    { <<"+", "a">>, <<"-", "a">>, <<" ", "a">>, <<>>, <<"@">> }

LinePool == HeaderLines \cup MalformedLines \cup EmbeddedLines \cup ContentLines

RECURSIVE join(_)
join(ls) ==
    IF Len(ls) = 0 THEN <<>>
    ELSE IF Len(ls) = 1 THEN ls[1]
    ELSE ls[1] \o <<NL>> \o join(Tail(ls))

(* the end-to-end patch of the specification *)
E2ELines ==
    << MkHeader(1, 3, 1, 4),
       <<" ", "l", "1">>,
       <<"-", "l", "2">>,
       <<"+", "l", "2", "m">>,
       <<"+", "l", "3">>,
       <<" ", "l", "4">> >>

E2EPatch == join(E2ELines)

LineSeqs == UNION { [1..n -> LinePool] : n \in 1..MaxLines }

(* DiffFileBlock renders a DiffViewer only for a truthy (non-empty) file.patch *)
Patches == { p \in { join(ls) : ls \in LineSeqs } \cup {E2EPatch} : p # <<>> }

----------------------------------------------------------------------------
(* The body of the for loop of DiffViewer *)

(* a hunk-header row: <div key=h-i>{raw}</div>, no number cells, no button *)
HunkRow(raw, idx) ==
    [kind |-> "hunk", idx |-> idx, old |-> NULL, new |-> NULL, sign |-> "", text |-> raw]

(* raw.startsWith("@@") branch: counters after the line, and the row pushed *)
StepHunk_firstHeaderOnly(raw, idx, o, n) ==
    LET m == match(raw)
    IN  [ oldLine |-> IF m # <<>> /\ o = 0 /\ n = 0 THEN parseInt(m[1]) ELSE o,
          newLine |-> IF m # <<>> /\ o = 0 /\ n = 0 THEN parseInt(m[2]) ELSE n,
          row     |-> HunkRow(raw, idx) ]

StepHunk_resetOnNoMatch(raw, idx, o, n) ==
    LET m == match(raw)
    IN  [ oldLine |-> IF m # <<>> THEN parseInt(m[1]) ELSE 0,
          newLine |-> IF m # <<>> THEN parseInt(m[2]) ELSE 0,
          row     |-> HunkRow(raw, idx) ]

StepHunk_swapsGroups(raw, idx, o, n) ==
    LET m == match(raw)
    IN  [ oldLine |-> IF m # <<>> THEN parseInt(m[2]) ELSE o,
          newLine |-> IF m # <<>> THEN parseInt(m[1]) ELSE n,
          row     |-> HunkRow(raw, idx) ]

StepHunk(raw, idx, o, n) ==
    LET m == match(raw)
    IN  [ oldLine |-> IF m # <<>> THEN parseInt(m[1]) ELSE o,
          newLine |-> IF m # <<>> THEN parseInt(m[2]) ELSE n,
          row     |-> HunkRow(raw, idx) ]

(* sign = raw[0] || " " *)
Sign(raw) == IF Len(raw) = 0 THEN " " ELSE raw[1]

(* content = raw.startsWith("+") || raw.startsWith("-") ? raw.slice(1) : raw *)
Content(raw) ==
    IF startsWith(raw, <<"+">>) \/ startsWith(raw, <<"-">>) THEN slice1(raw) ELSE raw

ContentRow(raw, idx, type, displayOld, displayNew) ==
    [kind |-> type, idx |-> idx, old |-> displayOld, new |-> displayNew,
     sign |-> Sign(raw), text |-> Content(raw)]

(* raw.startsWith("+"): type = "add" *)
StepAdd_emitAfterIncrement(raw, idx, o, n) ==
    [ oldLine |-> o, newLine |-> n + 1,
      row |-> ContentRow(raw, idx, "add", NULL, n + 1) ]

StepAdd_carriesOld(raw, idx, o, n) ==
    [ oldLine |-> o, newLine |-> n + 1,
      row |-> ContentRow(raw, idx, "add", o, n) ]

StepAdd_advancesBoth(raw, idx, o, n) ==
    [ oldLine |-> o + 1, newLine |-> n + 1,
      row |-> ContentRow(raw, idx, "add", NULL, n) ]

StepAdd(raw, idx, o, n) ==
    [ oldLine |-> o, newLine |-> n + 1,
      row |-> ContentRow(raw, idx, "add", NULL, n) ]

(* raw.startsWith("-"): type = "del" *)
StepDel_advancesNew(raw, idx, o, n) ==
    [ oldLine |-> o + 1, newLine |-> n + 1,
      row |-> ContentRow(raw, idx, "del", o, NULL) ]

StepDel_emitAfterIncrement(raw, idx, o, n) ==
    [ oldLine |-> o + 1, newLine |-> n,
      row |-> ContentRow(raw, idx, "del", o + 1, NULL) ]

StepDel(raw, idx, o, n) ==
    [ oldLine |-> o + 1, newLine |-> n,
      row |-> ContentRow(raw, idx, "del", o, NULL) ]

(* else: type = "ctx" *)
StepCtx_advancesNewOnly(raw, idx, o, n) ==
    [ oldLine |-> o, newLine |-> n + 1,
      row |-> ContentRow(raw, idx, "ctx", o, n) ]

StepCtx(raw, idx, o, n) ==
    [ oldLine |-> o + 1, newLine |-> n + 1,
      row |-> ContentRow(raw, idx, "ctx", o, n) ]

(* the if / else if / else over the first character of a content line *)
StepContent(raw, idx, o, n) ==
    IF startsWith(raw, <<"+">>) THEN StepAdd(raw, idx, o, n)
    ELSE IF startsWith(raw, <<"-">>) THEN StepDel(raw, idx, o, n)
    ELSE StepCtx(raw, idx, o, n)

LoopBody_headerNeedsMatch(raw, idx, o, n) ==
    IF startsWith(raw, <<"@", "@">>) /\ match(raw) # <<>> THEN StepHunk(raw, idx, o, n)
    ELSE StepContent(raw, idx, o, n)

LoopBody(raw, idx, o, n) ==
    IF startsWith(raw, <<"@", "@">>) THEN StepHunk(raw, idx, o, n)
    ELSE StepContent(raw, idx, o, n)

----------------------------------------------------------------------------
(* The click handler of a content row *)

(* const ln = displayNew != null ? displayNew : (displayOld != null ? displayOld : 0) *)
ClickLn(row) ==
    IF row.new # NULL THEN row.new ELSE IF row.old # NULL THEN row.old ELSE 0

(* if (ln) onPickLine(ln): 0 is falsy *)
Truthy(ln) == ln # 0

NoClick == [row |-> 0, invoked |-> FALSE, arg |-> NULL]

----------------------------------------------------------------------------
(* State machine *)

Init_countersFromOne ==
    /\ patch \in Patches
    /\ lines = split(patch)
    /\ i = 0
    /\ oldLine = 1
    /\ newLine = 1
    /\ rendered = <<>>
    /\ pc = "loop"
    /\ selectedLine = NULL
    /\ lastClick = NoClick
    /\ prevRows = <<>>
    /\ blocks = <<>>
    /\ page = <<>>

Init ==
    /\ patch \in Patches
    /\ lines = split(patch)
    /\ i = 0
    /\ oldLine = 0
    /\ newLine = 0
    /\ rendered = <<>>
    /\ pc = "loop"
    /\ selectedLine = NULL
    /\ lastClick = NoClick
    /\ prevRows = <<>>
    /\ blocks = <<>>
    /\ page = <<>>

(* one iteration of for (let i = 0; i < lines.length; i++) *)
LoopStep_headerNotPushed ==
    /\ pc = "loop"
    /\ i < Len(lines)
    /\ LET r == LoopBody(lines[i + 1], i, oldLine, newLine)
       IN  /\ oldLine' = r.oldLine
           /\ newLine' = r.newLine
           /\ rendered' = IF r.row.kind = "hunk" THEN rendered ELSE Append(rendered, r.row)
    /\ i' = i + 1
    /\ UNCHANGED <<patch, lines, pc, selectedLine, lastClick, prevRows, blocks, page>>

LoopStep_headerNotAdvanced ==
    /\ pc = "loop"
    /\ i < Len(lines)
    /\ LET r == LoopBody(lines[i + 1], i, oldLine, newLine)
       IN  /\ oldLine' = r.oldLine
           /\ newLine' = r.newLine
           /\ rendered' = IF r.row.kind = "hunk" THEN rendered ELSE Append(rendered, r.row)
           /\ i' = IF r.row.kind = "hunk" THEN i ELSE i + 1
    /\ UNCHANGED <<patch, lines, pc, selectedLine, lastClick, prevRows, blocks, page>>

LoopStep_callsHandler ==
    /\ pc = "loop"
    /\ i < Len(lines)
    /\ LET r == LoopBody(lines[i + 1], i, oldLine, newLine)
       IN  /\ oldLine' = r.oldLine
           /\ newLine' = r.newLine
           /\ rendered' = Append(rendered, r.row)
           /\ selectedLine' = IF r.row.kind # "hunk" /\ Truthy(ClickLn(r.row))
                              THEN ClickLn(r.row) ELSE selectedLine
    /\ i' = i + 1
    /\ UNCHANGED <<patch, lines, pc, lastClick, prevRows, blocks, page>>

LoopStep ==
    /\ pc = "loop"
    /\ i < Len(lines)
    /\ LET r == LoopBody(lines[i + 1], i, oldLine, newLine)
       IN  /\ oldLine' = r.oldLine
           /\ newLine' = r.newLine
           /\ rendered' = Append(rendered, r.row)
    /\ i' = i + 1
    /\ UNCHANGED <<patch, lines, pc, selectedLine, lastClick, prevRows, blocks, page>>

(* the loop ends and the rows are returned *)
LoopExit ==
    /\ pc = "loop"
    /\ i = Len(lines)
    /\ pc' = "shown"
    /\ UNCHANGED <<patch, lines, i, oldLine, newLine, rendered, selectedLine, lastClick,
                 prevRows, blocks, page>>

(* a click on row k: only content rows carry a button with an onClick handler; *)
(* onPickLine is (ln) => setSelectedLine(ln) of DiffFileBlock                  *)
Click(k) ==
    /\ pc = "shown"
    /\ k \in 1..Len(rendered)
    /\ IF rendered[k].kind = "hunk"
       THEN /\ lastClick' = [row |-> k, invoked |-> FALSE, arg |-> NULL]
            /\ UNCHANGED selectedLine
       ELSE LET ln == ClickLn(rendered[k])
            IN  IF Truthy(ln)
                THEN /\ lastClick' = [row |-> k, invoked |-> TRUE, arg |-> ln]
                     /\ selectedLine' = ln
                ELSE /\ lastClick' = [row |-> k, invoked |-> FALSE, arg |-> NULL]
                     /\ UNCHANGED selectedLine
    /\ UNCHANGED <<patch, lines, i, oldLine, newLine, rendered, pc, prevRows, blocks, page>>

(* React renders DiffViewer again: the locals start afresh, selectedLine is kept *)
Rerender_keepsCounters ==
    /\ pc = "shown"
    /\ lines' = split(patch)
    /\ i' = 0
    /\ rendered' = <<>>
    /\ pc' = "loop"
    /\ lastClick' = NoClick
    /\ prevRows' = rendered
    /\ UNCHANGED <<patch, selectedLine, blocks, page, oldLine, newLine>>

Rerender ==
    /\ pc = "shown"
    /\ lines' = split(patch)
    /\ i' = 0
    /\ oldLine' = 0
    /\ newLine' = 0
    /\ rendered' = <<>>
    /\ pc' = "loop"
    /\ lastClick' = NoClick
    /\ prevRows' = rendered
    /\ UNCHANGED <<patch, selectedLine, blocks, page>>

Next ==
    \/ LoopStep
    \/ LoopExit
    \/ \E k \in 1..(MaxLines + 6) : Click(k)
    \/ Rerender

Spec == Init /\ [][Next]_vars

----------------------------------------------------------------------------
(* Patches of one hunk: a header with every combination of start values and *)
(* of present or absent counts, followed by content lines only.             *)

StartVals == {1, 7}

CountVals == {NULL, 0, 3}

HunkTails == [1..(MaxLines - 1) -> { <<"+", "a">>, <<"-", "a">>, <<" ", "a">> }]

CountPatches ==
    { join(<<MkHeader(h[1], h[2], h[3], h[4])>> \o t) :
          h \in StartVals \X CountVals \X StartVals \X CountVals, t \in HunkTails }

InitCounts ==
    /\ patch \in CountPatches
    /\ lines = split(patch)
    /\ i = 0
    /\ oldLine = 0
    /\ newLine = 0
    /\ rendered = <<>>
    /\ pc = "loop"
    /\ selectedLine = NULL
    /\ lastClick = NoClick
    /\ prevRows = <<>>
    /\ blocks = <<>>
    /\ page = <<>>

SpecCounts == InitCounts /\ [][Next]_vars

----------------------------------------------------------------------------
(* A diff of several files: one DiffFileBlock per file (keyed by filename), *)
(* each with its own selectedLine, its own DiffViewer and its own           *)
(* InlineCommentForm. The parses of different files may interleave.         *)

Files == {"a.ts", "b.ts"}

BlockPatches ==
    { join(<<MkHeader(1, 3, 1, 4), <<"+", "a">>, <<" ", "a">>>>),
      join(<<<<"-", "a">>, MkHeader(10, 5, 20, 5), <<"-", "a">>>>),
      join(<<<<" ", "a">>, <<"+", "a">>>>) }

(* a mounted block: useState(null) of selectedLine, useState("") of the form's *)
(* line, and the locals of the first DiffViewer call                           *)
NewBlock(p) ==
    [patch |-> p, lines |-> split(p), i |-> 0, oldLine |-> 0, newLine |-> 0,
     rendered |-> <<>>, pc |-> "loop", selectedLine |-> NULL, line |-> <<>>]

(* String(prefillLine) *)
String(n) == Dec(n)

viewerVars == <<patch, lines, i, oldLine, newLine, rendered, pc, selectedLine, lastClick,
                prevRows, page>>

InitBlocks ==
    /\ blocks \in [Files -> { NewBlock(p) : p \in BlockPatches }]
    /\ page = <<>>
    /\ patch = <<>>
    /\ lines = <<>>
    /\ i = 0
    /\ oldLine = 0
    /\ newLine = 0
    /\ rendered = <<>>
    /\ pc = "off"
    /\ selectedLine = NULL
    /\ lastClick = NoClick
    /\ prevRows = <<>>

(* one iteration of the for loop of the DiffViewer of file f *)
BlkLoopStep(f) ==
    LET b == blocks[f]
    IN  /\ b.pc = "loop"
        /\ b.i < Len(b.lines)
        /\ LET r == LoopBody(b.lines[b.i + 1], b.i, b.oldLine, b.newLine)
           IN  blocks' = [blocks EXCEPT ![f] =
                   [b EXCEPT !.oldLine = r.oldLine, !.newLine = r.newLine,
                             !.rendered = Append(b.rendered, r.row), !.i = b.i + 1]]
        /\ UNCHANGED viewerVars

BlkLoopExit(f) ==
    LET b == blocks[f]
    IN  /\ b.pc = "loop"
        /\ b.i = Len(b.lines)
        /\ blocks' = [blocks EXCEPT ![f] = [b EXCEPT !.pc = "shown"]]
        /\ UNCHANGED viewerVars

(* what a pick of line ln does to the block it happens in: setSelectedLine(ln); *)
(* when the value is new, the block renders again: the effect of the form sets *)
(* its line to String(ln) and the DiffViewer parses the patch again.           *)
Picked(b, ln) ==
    IF ln = b.selectedLine THEN b
    ELSE [b EXCEPT !.selectedLine = ln, !.line = String(ln),
                   !.lines = split(b.patch), !.i = 0, !.oldLine = 0, !.newLine = 0,
                   !.rendered = <<>>, !.pc = "loop"]

(* a click on the button of content row k of file f *)
BlkClick_sharedSelection(f, k) ==
    LET b == blocks[f]
    IN  /\ b.pc = "shown"
        /\ k \in 1..Len(b.rendered)
        /\ b.rendered[k].kind # "hunk"
        /\ LET ln == ClickLn(b.rendered[k])
           IN  IF Truthy(ln)
               THEN blocks' = [g \in Files |-> Picked(blocks[g], ln)]
               ELSE UNCHANGED blocks
        /\ UNCHANGED viewerVars

BlkClick(f, k) ==
    LET b == blocks[f]
    IN  /\ b.pc = "shown"
        /\ k \in 1..Len(b.rendered)
        /\ b.rendered[k].kind # "hunk"
        /\ LET ln == ClickLn(b.rendered[k])
           IN  IF Truthy(ln)
               THEN blocks' = [blocks EXCEPT ![f] = Picked(b, ln)]
               ELSE UNCHANGED blocks
        /\ UNCHANGED viewerVars

NextBlocks ==
    \E f \in Files :
        \/ BlkLoopStep(f)
        \/ BlkLoopExit(f)
        \/ \E k \in 1..3 : BlkClick(f, k)

SpecBlocks == InitBlocks /\ [][NextBlocks]_vars

----------------------------------------------------------------------------
(* The page specifications keep the diff viewer switched off *)

diffVars == <<patch, lines, i, oldLine, newLine, rendered, pc, selectedLine, lastClick,
              prevRows, blocks>>

ViewerOff ==
    /\ patch = <<>>
    /\ lines = <<>>
    /\ i = 0
    /\ oldLine = 0
    /\ newLine = 0
    /\ rendered = <<>>
    /\ pc = "off"
    /\ selectedLine = NULL
    /\ lastClick = NoClick
    /\ prevRows = <<>>
    /\ blocks = <<>>

(* no request in flight *)
NoReq == <<>>

----------------------------------------------------------------------------
(* SpecForm: the InlineCommentForm of one DiffFileBlock and the overall     *)
(* feedback form of the panel. page.event is a history field: the handler   *)
(* that ran last; posts, added, overallPosts and overallRefreshes count     *)
(* the requests sent and the refreshes asked for; rejected and              *)
(* overallRejected remember that a POST of the form has rejected.           *)

MaxPosts == 2

(* str.trim() *)
RECURSIVE trimStart(_)
trimStart(s) == IF s # <<>> /\ IsSpace(s[1]) THEN trimStart(Tail(s)) ELSE s

RECURSIVE trimEnd(_)
trimEnd(s) ==
    IF s # <<>> /\ IsSpace(s[Len(s)]) THEN trimEnd(SubSeq(s, 1, Len(s) - 1)) ELSE s

trim(s) == trimEnd(trimStart(s))

(* Number(line) of the value of a number input holding decimal digits *)
Number(s) == parseInt(s)

(* the lines onPickLine is called with, the texts typed into the line field, *)
(* into the message field and into the overall feedback box                  *)
PickLines == {2, 10}

LineTexts == { <<>>, <<"0">> }

Messages == { <<>>, <<" ">>, <<" ", "k">> }

OverallTexts == { <<>>, <<"k", " ">> }

(* statuses of a response the POST resolves with *)
PostStatuses == {201, 500}

InitForm ==
    /\ page = [selectedLine |-> NULL, message |-> <<>>, line |-> <<>>, saving |-> FALSE,
               post |-> NoReq, posts |-> 0, added |-> 0, rejected |-> FALSE,
               event |-> <<"mount">>,
               overallText |-> <<>>, savingOverall |-> FALSE, overallPost |-> NoReq,
               overallPosts |-> 0, overallRefreshes |-> 0, overallRejected |-> FALSE]
    /\ ViewerOff

(* onPickLine(ln) every time, the effect re-run although prefillLine kept its value *)
FormPick_alwaysPrefills(ln) ==
    /\ page' = [page EXCEPT !.selectedLine = ln, !.line = String(ln),
                            !.event = <<"pick", ln>>]
    /\ UNCHANGED diffVars

(* onPickLine(ln): setSelectedLine(ln); the effect on [prefillLine] runs only *)
(* when the value changed and then sets the line field to String(ln)          *)
FormPick(ln) ==
    /\ page' = IF ln = page.selectedLine
               THEN [page EXCEPT !.event = <<"pick", ln>>]
               ELSE [page EXCEPT !.selectedLine = ln, !.line = String(ln),
                                 !.event = <<"pick", ln>>]
    /\ UNCHANGED diffVars

(* onChange of the line input *)
FormEditLine(v) ==
    /\ page' = [page EXCEPT !.line = v, !.event = <<"edit">>]
    /\ UNCHANGED diffVars

(* onChange of the message input *)
FormEditMessage(v) ==
    /\ page' = [page EXCEPT !.message = v, !.event = <<"edit">>]
    /\ UNCHANGED diffVars

(* onSubmit of the inline form; the submit button is disabled while saving *)
FormSubmit ==
    /\ ~page.saving
    /\ page.posts < MaxPosts
    /\ page' = IF trim(page.message) = <<>>
               THEN [page EXCEPT !.event = <<"submit">>]
               ELSE [page EXCEPT !.saving = TRUE,
                                 !.post = [line |-> IF page.line # <<>>
                                                    THEN Number(page.line) ELSE NULL,
                                           message |-> page.message],
                                 !.posts = @ + 1,
                                 !.event = <<"submit">>]
    /\ UNCHANGED diffVars

(* the form is cleared only after an ok response *)
FormPostResolves_checksOk(status) ==
    /\ page.post # NoReq
    /\ page' = IF status < 300
               THEN [page EXCEPT !.message = <<>>, !.line = <<>>, !.saving = FALSE,
                                 !.added = @ + 1, !.post = NoReq,
                                 !.event = <<"resolved", status>>]
               ELSE [page EXCEPT !.saving = FALSE, !.post = NoReq,
                                 !.event = <<"resolved", status>>]
    /\ UNCHANGED diffVars

(* the awaited fetch resolves (fetch resolves for every HTTP status): the rest *)
(* of onSubmit runs                                                            *)
FormPostResolves(status) ==
    /\ page.post # NoReq
    /\ page' = [page EXCEPT !.message = <<>>, !.line = <<>>, !.saving = FALSE,
                            !.added = @ + 1, !.post = NoReq,
                            !.event = <<"resolved", status>>]
    /\ UNCHANGED diffVars

(* a rejection handled with try/finally *)
FormPostRejects_resetsSaving ==
    /\ page.post # NoReq
    /\ page' = [page EXCEPT !.post = NoReq, !.saving = FALSE, !.rejected = TRUE,
                            !.event = <<"rejected">>]
    /\ UNCHANGED diffVars

(* the awaited fetch rejects: onSubmit has no try/catch, the rest of it is skipped *)
FormPostRejects ==
    /\ page.post # NoReq
    /\ page' = [page EXCEPT !.post = NoReq, !.rejected = TRUE, !.event = <<"rejected">>]
    /\ UNCHANGED diffVars

(* onChange of the overall feedback textarea *)
OverallEdit(v) ==
    /\ page' = [page EXCEPT !.overallText = v, !.event = <<"edit">>]
    /\ UNCHANGED diffVars

(* onSubmit of the overall feedback form; the button is disabled while saving *)
OverallSubmit ==
    /\ ~page.savingOverall
    /\ page.overallPosts < MaxPosts
    /\ page' = IF trim(page.overallText) = <<>>
               THEN [page EXCEPT !.event = <<"submitOverall">>]
               ELSE [page EXCEPT !.savingOverall = TRUE,
                                 !.overallPost = [message |-> trim(page.overallText)],
                                 !.overallPosts = @ + 1,
                                 !.event = <<"submitOverall">>]
    /\ UNCHANGED diffVars

(* the POST resolves: the text is cleared and the overall comments are fetched again *)
OverallPostResolves ==
    /\ page.overallPost # NoReq
    /\ page' = [page EXCEPT !.overallText = <<>>, !.savingOverall = FALSE,
                            !.overallRefreshes = @ + 1, !.overallPost = NoReq,
                            !.event = <<"resolvedOverall">>]
    /\ UNCHANGED diffVars

(* the POST rejects: the rest of the handler is skipped *)
OverallPostRejects ==
    /\ page.overallPost # NoReq
    /\ page' = [page EXCEPT !.overallPost = NoReq, !.overallRejected = TRUE,
                            !.event = <<"rejectedOverall">>]
    /\ UNCHANGED diffVars

NextForm ==
    \/ \E ln \in PickLines : FormPick(ln)
    \/ \E v \in LineTexts : FormEditLine(v)
    \/ \E v \in Messages : FormEditMessage(v)
    \/ FormSubmit
    \/ \E status \in PostStatuses : FormPostResolves(status)
    \/ FormPostRejects
    \/ \E v \in OverallTexts : OverallEdit(v)
    \/ OverallSubmit
    \/ OverallPostResolves
    \/ OverallPostRejects

SpecForm == InitForm /\ [][NextForm]_vars

----------------------------------------------------------------------------
(* SpecSend: the "Send Inline Comments via Email" button of the panel and   *)
(* the loads of the inline comment list. inlineComments is the length of    *)
(* the loaded list, loads the number of list fetches in flight, sendReqs    *)
(* the send requests in flight, each with the inlineComments.length its     *)
(* handler closed over; alert is the last alert shown.                      *)

MaxComments == 2

MaxLoads == 2

(* the outcomes of the send request: ok response, non-ok response, rejected fetch *)
SendOutcomes == {"ok", "notok", "rejected"}

(* useState initial values and the load started by the mount effect *)
InitSend ==
    /\ page = [inlineComments |-> 0, inlineLoading |-> TRUE, loads |-> 1,
               sendingInlineComments |-> FALSE, sendReqs |-> <<>>, alert |-> <<"none">>]
    /\ ViewerOff

(* onRefreshComments: setInlineLoading(true) and a new fetch of the list *)
RefreshComments ==
    /\ page.loads < MaxLoads
    /\ page' = [page EXCEPT !.inlineLoading = TRUE, !.loads = @ + 1]
    /\ UNCHANGED diffVars

(* a list fetch resolves: setInlineComments, then finally setInlineLoading(false) *)
CommentsLoaded(n) ==
    /\ page.loads > 0
    /\ page' = [page EXCEPT !.inlineComments = n, !.inlineLoading = FALSE, !.loads = @ - 1]
    /\ UNCHANGED diffVars

(* a list fetch rejects: only finally runs *)
CommentsLoadFails ==
    /\ page.loads > 0
    /\ page' = [page EXCEPT !.inlineLoading = FALSE, !.loads = @ - 1]
    /\ UNCHANGED diffVars

(* the button without its disabled attribute *)
SendClick_neverDisabled ==
    /\ page.inlineComments > 0
    /\ Len(page.sendReqs) < 2
    /\ page' = [page EXCEPT !.sendingInlineComments = TRUE,
                            !.sendReqs = Append(@, page.inlineComments)]
    /\ UNCHANGED diffVars

(* onClick of the button, rendered when inlineComments.length > 0 and disabled *)
(* while sendingInlineComments: the flag is set and the POST is issued         *)
SendClick ==
    /\ page.inlineComments > 0
    /\ ~page.sendingInlineComments
    /\ page' = [page EXCEPT !.sendingInlineComments = TRUE,
                            !.sendReqs = Append(@, page.inlineComments)]
    /\ UNCHANGED diffVars

(* the send request ends: alert of the try or of the catch branch, then finally *)
SendDone(outcome) ==
    /\ page.sendReqs # <<>>
    /\ page' = [page EXCEPT !.sendReqs = Tail(@),
                            !.sendingInlineComments = FALSE,
                            !.alert = IF outcome = "ok"
                                      THEN <<"sent", Head(page.sendReqs)>>
                                      ELSE <<"failed", outcome>>]
    /\ UNCHANGED diffVars

NextSend ==
    \/ RefreshComments
    \/ \E n \in 0..MaxComments : CommentsLoaded(n)
    \/ CommentsLoadFails
    \/ SendClick
    \/ \E outcome \in SendOutcomes : SendDone(outcome)

SpecSend == InitSend /\ [][NextSend]_vars

----------------------------------------------------------------------------
(* SpecApi: one call of api.get / post / put / delete (utils/api.ts) and    *)
(* the promise request returns. page.options is what the api object hands   *)
(* to request, page.headers and page.sent what request hands to fetch,      *)
(* page.result how the promise settles.                                     *)

(* JavaScript undefined *)
UNDEF == <<"undefined">>

(* an object value passed as body *)
EmptyObj == <<"object">>

(* truthiness of undefined, of a string and of an object *)
TruthyVal(v) == v # UNDEF /\ v # <<>>

(* JSON.stringify of an object without fields and of a string *)
JSONstringify(v) == IF v = EmptyObj THEN <<"{", "}">> ELSE <<"\"">> \o v \o <<"\"">>

ApiMethods == {"GET", "POST", "PUT", "DELETE"}

(* the body argument of api.post / api.put: absent, "", "a", {} *)
BodyArgs == { UNDEF, <<>>, <<"a">>, EmptyObj }

(* the bodies of a response: not JSON, JSON null, and JSON objects without *)
(* detail, with detail "" and with detail "no"                             *)
NotJson == [json |-> FALSE, null |-> FALSE, detail |-> UNDEF]

Bodies ==
    { NotJson,
      [json |-> TRUE, null |-> TRUE, detail |-> UNDEF],
      [json |-> TRUE, null |-> FALSE, detail |-> UNDEF],
      [json |-> TRUE, null |-> FALSE, detail |-> <<>>],
      [json |-> TRUE, null |-> FALSE, detail |-> <<"n", "o">>] }

ResStatuses == {200, 204, 404, 500}

(* res.ok *)
ok(status) == status >= 200 /\ status <= 299

(* the options the api object builds for request *)
apiOptions(method, arg) ==
    IF method \in {"POST", "PUT"}
    THEN [method |-> method, bodyKey |-> TRUE,
          body |-> IF TruthyVal(arg) THEN JSONstringify(arg) ELSE UNDEF]
    ELSE [method |-> method, bodyKey |-> FALSE, body |-> UNDEF]

(* const hasBody = options && "body" in options && options.body !== undefined *)
hasBody(options) == options.bodyKey /\ options.body # UNDEF

(* the headers of the fetch: Content-Type when hasBody, options.headers is absent *)
requestHeaders(options) == IF hasBody(options) THEN {"Content-Type"} ELSE {}

NoResult == [kind |-> "none", value |-> NotJson, message |-> <<>>]

Value(v) == [kind |-> "value", value |-> v, message |-> <<>>]

Error(m) == [kind |-> "error", value |-> NotJson, message |-> m]

(* the message of the SyntaxError res.json() rejects with *)
SyntaxError == <<"SyntaxError">>

(* the message taken from any detail the body has, truthy or not *)
failureMessage_anyDetail(status, body) ==
    IF body.json /\ ~body.null /\ body.detail # UNDEF THEN body.detail
    ELSE <<"Request failed: ">> \o Dec(status)

(* lines 15-19: the default message, replaced by body.detail when the body *)
(* parses and body?.detail is truthy; a failed parse is swallowed          *)
failureMessage(status, body) ==
    IF body.json /\ ~body.null /\ TruthyVal(body.detail) THEN body.detail
    ELSE <<"Request failed: ">> \o Dec(status)

(* how request settles for a response *)
settle(status, body) ==
    IF ~ok(status) THEN Error(failureMessage(status, body))
    ELSE IF body.json THEN Value(body) ELSE Error(SyntaxError)

InitApi ==
    /\ page = [pc |-> "idle", options |-> apiOptions("GET", UNDEF), headers |-> {},
               sent |-> UNDEF, status |-> 0, body |-> NotJson, result |-> NoResult]
    /\ ViewerOff

(* api.<method>(path, arg): request builds the headers and calls fetch *)
ApiCall(method, arg) ==
    /\ page.pc = "idle"
    /\ LET options == apiOptions(method, arg)
       IN  page' = [page EXCEPT !.pc = "fetching", !.options = options,
                                !.headers = requestHeaders(options),
                                !.sent = options.body,
                                !.status = 0, !.body = NotJson, !.result = NoResult]
    /\ UNCHANGED diffVars

(* the fetch resolves with a response *)
ApiRespond(status, body) ==
    /\ page.pc = "fetching"
    /\ page' = [page EXCEPT !.pc = "done", !.status = status, !.body = body,
                            !.result = settle(status, body)]
    /\ UNCHANGED diffVars

(* the fetch rejects: request rejects with the same error *)
ApiFetchRejects ==
    /\ page.pc = "fetching"
    /\ page' = [page EXCEPT !.pc = "done", !.result = Error(<<"TypeError">>)]
    /\ UNCHANGED diffVars

(* the caller has the outcome; the next call can be made *)
ApiReturn ==
    /\ page.pc = "done"
    /\ page' = [page EXCEPT !.pc = "idle"]
    /\ UNCHANGED diffVars

NextApi ==
    \/ \E method \in ApiMethods, arg \in BodyArgs : ApiCall(method, arg)
    \/ \E status \in ResStatuses, body \in Bodies : ApiRespond(status, body)
    \/ ApiFetchRejects
    \/ ApiReturn

SpecApi == InitApi /\ [][NextApi]_vars

----------------------------------------------------------------------------
(* SpecStart: the candidate start page. page.meta is the invite status of   *)
(* the loaded meta ("null" before a load), page.error the error message     *)
(* ("null" for none). load, startPost, startGet, submitPost and submitGet   *)
(* count the requests of the mount effect, of handleStart and of            *)
(* handleSubmit that are in flight; clicks and gets count the clicks made   *)
(* and the GETs issued, event is the step taken last.                       *)

MaxClicks == 2

(* invite.status: the three the page tests for, and one more *)
InviteStatuses == {"pending", "started", "submitted", "expired"}

(* data.git of a response: absent or present *)
GitInfos == {"null", "git"}

(* e.message of a rejected api call: empty, or the message api.ts builds *)
ErrorMessages == {"", "Request failed: 500"}

(* e?.message || fallback *)
orElse(message, fallback) == IF message # "" THEN message ELSE fallback

(* useState initial values; the mount effect has issued its GET *)
InitStart ==
    /\ page = [meta |-> "null", loading |-> TRUE, error |-> "null", git |-> "null",
               success |-> FALSE, load |-> 1, startPost |-> 0, startGet |-> 0,
               submitPost |-> 0, submitGet |-> 0, clicks |-> 0, gets |-> 1,
               event |-> "mount"]
    /\ ViewerOff

(* the early returns of the render without the one for error *)
ActionsRendered_ignoresError == ~page.loading /\ page.meta # "null"

(* lines 140-142: the page with its buttons is rendered only past the three *)
(* early returns                                                            *)
ActionsRendered == ~page.loading /\ page.error = "null" /\ page.meta # "null"

(* disabled={invite.status !== "pending"} *)
StartEnabled == ActionsRendered /\ page.meta = "pending"

(* a button that is disabled for pending invites only *)
SubmitEnabled_notPending == ActionsRendered /\ page.meta # "pending"

(* disabled={invite.status !== "started"} *)
SubmitEnabled == ActionsRendered /\ page.meta = "started"

(* the GET of the mount effect resolves: setMeta, setGit, setLoading(false) *)
LoadOk(st, g) ==
    /\ page.load > 0
    /\ page' = [page EXCEPT !.meta = st, !.git = g, !.loading = FALSE, !.load = @ - 1,
                            !.event = "loadOk"]
    /\ UNCHANGED diffVars

(* the GET of the mount effect rejects: setError, setLoading(false) *)
LoadFails(m) ==
    /\ page.load > 0
    /\ page' = [page EXCEPT !.error = orElse(m, "Failed to load"), !.loading = FALSE,
                            !.load = @ - 1, !.event = "loadFails"]
    /\ UNCHANGED diffVars

(* handleStart up to its first await *)
ClickStart ==
    /\ StartEnabled
    /\ page.clicks < MaxClicks
    /\ page' = [page EXCEPT !.error = "null", !.startPost = @ + 1, !.clicks = @ + 1,
                            !.event = "clickStart"]
    /\ UNCHANGED diffVars

(* the POST of handleStart resolves: setGit(res.git) and the refresh GET *)
StartPostOk ==
    /\ page.startPost > 0
    /\ page' = [page EXCEPT !.git = "git", !.startPost = @ - 1, !.startGet = @ + 1,
                            !.gets = @ + 1, !.event = "startPostOk"]
    /\ UNCHANGED diffVars

(* the POST of handleStart rejects: catch *)
StartPostFails(m) ==
    /\ page.startPost > 0
    /\ page' = [page EXCEPT !.error = orElse(m, "Failed to start"), !.startPost = @ - 1,
                            !.event = "startPostFails"]
    /\ UNCHANGED diffVars

(* the refresh GET of handleStart resolves: setMeta(m) *)
StartGetOk(st) ==
    /\ page.startGet > 0
    /\ page' = [page EXCEPT !.meta = st, !.startGet = @ - 1, !.event = "startGetOk"]
    /\ UNCHANGED diffVars

(* the refresh GET of handleStart rejects: catch *)
StartGetFails(m) ==
    /\ page.startGet > 0
    /\ page' = [page EXCEPT !.error = orElse(m, "Failed to start"), !.startGet = @ - 1,
                            !.event = "startGetFails"]
    /\ UNCHANGED diffVars

(* handleSubmit up to its first await *)
ClickSubmit ==
    /\ SubmitEnabled
    /\ page.clicks < MaxClicks
    /\ page' = [page EXCEPT !.error = "null", !.submitPost = @ + 1, !.clicks = @ + 1,
                            !.event = "clickSubmit"]
    /\ UNCHANGED diffVars

(* the POST of handleSubmit resolves: the refresh GET is issued *)
SubmitPostOk ==
    /\ page.submitPost > 0
    /\ page' = [page EXCEPT !.submitPost = @ - 1, !.submitGet = @ + 1, !.gets = @ + 1,
                            !.event = "submitPostOk"]
    /\ UNCHANGED diffVars

(* the POST of handleSubmit rejects: catch *)
SubmitPostFails(m) ==
    /\ page.submitPost > 0
    /\ page' = [page EXCEPT !.error = orElse(m, "Failed to submit"), !.submitPost = @ - 1,
                            !.event = "submitPostFails"]
    /\ UNCHANGED diffVars

(* the refresh GET of handleSubmit resolves: setMeta, setGit if present, setSuccess *)
SubmitGetOk(st, g) ==
    /\ page.submitGet > 0
    /\ page' = [page EXCEPT !.meta = st, !.git = IF g # "null" THEN g ELSE @,
                            !.success = TRUE, !.submitGet = @ - 1,
                            !.event = "submitGetOk"]
    /\ UNCHANGED diffVars

(* the refresh GET of handleSubmit rejects: catch *)
SubmitGetFails(m) ==
    /\ page.submitGet > 0
    /\ page' = [page EXCEPT !.error = orElse(m, "Failed to submit"), !.submitGet = @ - 1,
                            !.event = "submitGetFails"]
    /\ UNCHANGED diffVars

NextStart ==
    \/ \E st \in InviteStatuses, g \in GitInfos : LoadOk(st, g)
    \/ \E m \in ErrorMessages : LoadFails(m)
    \/ ClickStart
    \/ StartPostOk
    \/ \E m \in ErrorMessages : StartPostFails(m)
    \/ \E st \in InviteStatuses : StartGetOk(st)
    \/ \E m \in ErrorMessages : StartGetFails(m)
    \/ ClickSubmit
    \/ SubmitPostOk
    \/ \E m \in ErrorMessages : SubmitPostFails(m)
    \/ \E st \in InviteStatuses, g \in GitInfos : SubmitGetOk(st, g)
    \/ \E m \in ErrorMessages : SubmitGetFails(m)

SpecStart == InitStart /\ [][NextStart]_vars

----------------------------------------------------------------------------
(* SpecTabs: the tabs of the challenges page. page.shown is the tab whose   *)
(* list the assessments state holds ("none" for the empty list of the first *)
(* render or of a failed load). tabFetch[t] counts the list fetches of the  *)
(* tab effect in flight, put[t] the archive (t = available) and unarchive   *)
(* (t = archived) PUTs in flight, refetch[t] the list fetches that follow   *)
(* them. ops counts the operations started; peak is the largest number of   *)
(* requests that were in flight together.                                   *)

MaxOps == 4

Tabs == {"available", "archived"}

(* requests in flight *)
InFlight(p) ==
    p.tabFetch["available"] + p.tabFetch["archived"] + p.put["available"]
        + p.put["archived"] + p.refetch["available"] + p.refetch["archived"]

(* page after a request was issued or ended *)
Tracked(p) == [p EXCEPT !.peak = IF InFlight(p) > @ THEN InFlight(p) ELSE @]

(* useState initial values; the effect on [activeTab] has run for the first render *)
InitTabs ==
    /\ page = [activeTab |-> "available", shown |-> "none", error |-> "null",
               tabFetch |-> [t \in Tabs |-> IF t = "available" THEN 1 ELSE 0],
               put |-> [t \in Tabs |-> 0], refetch |-> [t \in Tabs |-> 0],
               ops |-> 1, peak |-> 1]
    /\ ViewerOff

(* a tab button that sets activeTab without the effect fetching the list *)
SwitchTab_noFetch(t) ==
    /\ t # page.activeTab
    /\ page.ops < MaxOps
    /\ page' = [page EXCEPT !.activeTab = t, !.error = "null", !.ops = @ + 1]
    /\ UNCHANGED diffVars

(* click on the other tab: setActiveTab(t); the effect on [activeTab] clears *)
(* error and fetches the list of t                                           *)
SwitchTab(t) ==
    /\ t # page.activeTab
    /\ page.ops < MaxOps
    /\ page' = Tracked([page EXCEPT !.activeTab = t, !.error = "null",
                                    !.tabFetch[t] = @ + 1, !.ops = @ + 1])
    /\ UNCHANGED diffVars

(* a fetch of the tab effect resolves: setAssessments *)
TabFetchOk(t) ==
    /\ page.tabFetch[t] > 0
    /\ page' = [page EXCEPT !.shown = t, !.tabFetch[t] = @ - 1]
    /\ UNCHANGED diffVars

(* a fetch of the tab effect rejects: setAssessments([]) and setError *)
TabFetchFails(t) ==
    /\ page.tabFetch[t] > 0
    /\ page' = [page EXCEPT !.shown = "none", !.error = "Failed to load challenges",
                            !.tabFetch[t] = @ - 1]
    /\ UNCHANGED diffVars

(* click on Archive (tab available) or Unarchive (tab archived) of a row: the PUT *)
ClickArchive(t) ==
    /\ page.activeTab = t
    /\ page.shown # "none"
    /\ page.ops < MaxOps
    /\ page' = Tracked([page EXCEPT !.put[t] = @ + 1, !.ops = @ + 1])
    /\ UNCHANGED diffVars

(* the PUT resolves: the handler fetches the list of the tab it was clicked on *)
PutOk(t) ==
    /\ page.put[t] > 0
    /\ page' = [page EXCEPT !.put[t] = @ - 1, !.refetch[t] = @ + 1]
    /\ UNCHANGED diffVars

(* the PUT rejects: the handler ends, nothing is caught *)
PutFails(t) ==
    /\ page.put[t] > 0
    /\ page' = [page EXCEPT !.put[t] = @ - 1]
    /\ UNCHANGED diffVars

(* the fetch of the handler resolves: setAssessments(updated) *)
RefetchOk(t) ==
    /\ page.refetch[t] > 0
    /\ page' = [page EXCEPT !.shown = t, !.refetch[t] = @ - 1]
    /\ UNCHANGED diffVars

(* the fetch of the handler rejects: the handler ends, nothing is caught *)
RefetchFails(t) ==
    /\ page.refetch[t] > 0
    /\ page' = [page EXCEPT !.refetch[t] = @ - 1]
    /\ UNCHANGED diffVars

NextTabs ==
    \E t \in Tabs :
        \/ SwitchTab(t)
        \/ TabFetchOk(t)
        \/ TabFetchFails(t)
        \/ ClickArchive(t)
        \/ PutOk(t)
        \/ PutFails(t)
        \/ RefetchOk(t)
        \/ RefetchFails(t)

SpecTabs == InitTabs /\ [][NextTabs]_vars

----------------------------------------------------------------------------
(* SpecManage: the manage challenges page. page.assessments is the set of   *)
(* ids in the list, page.archived those with _archived, page.urls their     *)
(* seed_repo_url. page.del and page.sav are the delete and the save or      *)
(* overwrite request in flight, each with the values its handler closed     *)
(* over when it was called (id, url, and the selectedId of that render).    *)
(* The title of an assessment is its id; typing into the title field is     *)
(* left out.                                                                *)

Ids == {"a", "b"}

Urls == { <<"s">>, <<"u">> }

(* what can be typed into the modal's URL field *)
NewRepoUrls == { <<>>, <<" ">>, <<"u">> }

(* const selected = useMemo(() => assessments.find(a => a.id === selectedId) || null) *)
selected(p) == IF p.selectedId \in p.assessments THEN p.selectedId ELSE "null"

(* the effect on [selectedId, selected]: the editor fields follow selected *)
EditorEffect(p) ==
    [p EXCEPT !.editTitle = IF selected(p) = "null" THEN <<>> ELSE <<selected(p)>>,
              !.editRepoUrl = IF selected(p) = "null" THEN <<>> ELSE p.urls[selected(p)]]

(* closeActionsModal() *)
closeActionsModal(p) ==
    [p EXCEPT !.modalOpen = FALSE, !.modalAssessment = "null", !.newRepoUrl = <<>>]

(* useState initial values; the mount effect is loading the two lists *)
InitManage ==
    /\ page = [assessments |-> {}, archived |-> {}, urls |-> [id \in Ids |-> <<"s">>],
               selectedId |-> "null", loading |-> TRUE, error |-> "null",
               saving |-> FALSE, deleting |-> FALSE, modalOpen |-> FALSE,
               modalAssessment |-> "null", newRepoUrl |-> <<>>,
               editTitle |-> <<>>, editRepoUrl |-> <<>>,
               del |-> NoReq, sav |-> NoReq]
    /\ ViewerOff

(* the two GETs of the mount effect resolve *)
ManageLoadOk(available, archived) ==
    /\ page.loading
    /\ available \cap archived = {}
    /\ page' = [page EXCEPT !.assessments = available \cup archived,
                            !.archived = archived, !.loading = FALSE]
    /\ UNCHANGED diffVars

(* one of them rejects *)
ManageLoadFails ==
    /\ page.loading
    /\ page' = [page EXCEPT !.error = "Failed to load challenges", !.loading = FALSE]
    /\ UNCHANGED diffVars

(* the Edit button of a row that is not archived; the modal's backdrop covers *)
(* the list while the modal is open                                           *)
Select(id) ==
    /\ ~page.loading /\ ~page.modalOpen
    /\ id \in page.assessments \ page.archived
    /\ page' = IF id = page.selectedId THEN page
               ELSE EditorEffect([page EXCEPT !.selectedId = id])
    /\ UNCHANGED diffVars

(* onChange of the editor's URL field *)
TypeRepoUrl(v) ==
    /\ ~page.loading /\ ~page.modalOpen
    /\ selected(page) # "null"
    /\ page' = [page EXCEPT !.editRepoUrl = v]
    /\ UNCHANGED diffVars

(* handleSave up to its await; the submit button is disabled while saving *)
Save ==
    /\ ~page.loading /\ ~page.modalOpen
    /\ selected(page) # "null"
    /\ ~page.saving
    /\ page' = [page EXCEPT !.saving = TRUE, !.error = "null",
                            !.sav = [kind |-> "save", id |-> selected(page),
                                     url |-> page.editRepoUrl, sel |-> page.selectedId]]
    /\ UNCHANGED diffVars

(* the title button of a row: openActionsModal(a) *)
OpenModal(id) ==
    /\ ~page.loading /\ ~page.modalOpen
    /\ id \in page.assessments
    /\ page' = [page EXCEPT !.modalAssessment = id, !.newRepoUrl = <<>>,
                            !.modalOpen = TRUE]
    /\ UNCHANGED diffVars

(* the backdrop or the Cancel button *)
CloseModal ==
    /\ page.modalOpen
    /\ page' = closeActionsModal(page)
    /\ UNCHANGED diffVars

(* onChange of the modal's URL field *)
TypeNewRepoUrl(v) ==
    /\ page.modalOpen
    /\ page' = [page EXCEPT !.newRepoUrl = v]
    /\ UNCHANGED diffVars

(* handleModalOverwrite up to its await; the button is disabled while saving *)
ModalOverwrite ==
    /\ page.modalOpen
    /\ ~page.saving
    /\ page' = IF trim(page.newRepoUrl) = <<>>
               THEN [page EXCEPT
                        !.error = "Please provide a GitHub repo URL to overwrite with"]
               ELSE [page EXCEPT !.saving = TRUE, !.error = "null",
                                 !.sav = [kind |-> "overwrite", id |-> page.modalAssessment,
                                          url |-> trim(page.newRepoUrl),
                                          sel |-> page.selectedId]]
    /\ UNCHANGED diffVars

(* the PUT of handleSave or handleModalOverwrite resolves: the item is replaced *)
(* in the list; the overwrite also sets the editor's URL when the item was the  *)
(* selected one at the click and closes the modal; finally setSaving(false)     *)
SaveOk ==
    /\ page.sav # NoReq
    /\ LET r == page.sav
           mapped == [page EXCEPT !.urls[r.id] = IF r.id \in page.assessments
                                                 THEN r.url ELSE @,
                                  !.saving = FALSE, !.sav = NoReq]
           closed == IF r.kind = "overwrite"
                     THEN closeActionsModal(
                              [mapped EXCEPT !.editRepoUrl = IF r.sel = r.id
                                                             THEN r.url ELSE @])
                     ELSE mapped
       IN  page' = IF selected(page) = r.id THEN EditorEffect(closed) ELSE closed
    /\ UNCHANGED diffVars

(* the PUT rejects: catch and finally *)
SaveFails ==
    /\ page.sav # NoReq
    /\ page' = [page EXCEPT !.error = IF page.sav.kind = "save"
                                      THEN "Failed to save changes"
                                      ELSE "Failed to overwrite repository URL",
                            !.saving = FALSE, !.sav = NoReq]
    /\ UNCHANGED diffVars

(* handleModalDelete up to its await; the button is disabled while deleting *)
ModalDelete ==
    /\ page.modalOpen
    /\ ~page.deleting
    /\ page' = [page EXCEPT !.deleting = TRUE, !.error = "null",
                            !.del = [kind |-> "modal", id |-> page.modalAssessment,
                                     sel |-> page.selectedId]]
    /\ UNCHANGED diffVars

(* handleDelete, confirmed, up to its await; the button is disabled while deleting *)
Delete ==
    /\ ~page.loading /\ ~page.modalOpen
    /\ selected(page) # "null"
    /\ ~page.deleting
    /\ page' = [page EXCEPT !.deleting = TRUE, !.error = "null",
                            !.del = [kind |-> "editor", id |-> selected(page),
                                     sel |-> page.selectedId]]
    /\ UNCHANGED diffVars

(* the DELETE resolves: the item is filtered out; handleDelete sets selectedId *)
(* to null, handleModalDelete does so when the item was the selected one at    *)
(* the click, and closes the modal; finally setDeleting(false)                 *)
DeleteOk ==
    /\ page.del # NoReq
    /\ LET r == page.del
           filtered == [page EXCEPT !.assessments = @ \ {r.id},
                                    !.deleting = FALSE, !.del = NoReq]
           after == IF r.kind = "editor"
                    THEN [filtered EXCEPT !.selectedId = "null"]
                    ELSE closeActionsModal(
                             [filtered EXCEPT !.selectedId = IF r.sel = r.id
                                                             THEN "null" ELSE @])
       IN  page' = IF selected(after) # selected(page) \/ after.selectedId # page.selectedId
                   THEN EditorEffect(after) ELSE after
    /\ UNCHANGED diffVars

(* the DELETE rejects: catch and finally *)
DeleteFails ==
    /\ page.del # NoReq
    /\ page' = [page EXCEPT !.error = "Failed to delete challenge",
                            !.deleting = FALSE, !.del = NoReq]
    /\ UNCHANGED diffVars

NextManage ==
    \/ \E available \in SUBSET Ids, archived \in SUBSET Ids :
           ManageLoadOk(available, archived)
    \/ ManageLoadFails
    \/ \E id \in Ids : Select(id)
    \/ \E v \in Urls : TypeRepoUrl(v)
    \/ Save
    \/ \E id \in Ids : OpenModal(id)
    \/ CloseModal
    \/ \E v \in NewRepoUrls : TypeNewRepoUrl(v)
    \/ ModalOverwrite
    \/ SaveOk
    \/ SaveFails
    \/ ModalDelete
    \/ Delete
    \/ DeleteOk
    \/ DeleteFails

SpecManage == InitManage /\ [][NextManage]_vars

----------------------------------------------------------------------------
(* Helpers of the properties: the lines of a patch, read off its newlines *)

NlPositions(s) == { p \in 1..Len(s) : s[p] = NL }

NumLines(s) == Cardinality(NlPositions(s)) + 1

(* position of the k-th newline of s; 0 and Len(s) + 1 bracket the string *)
NthNl(s, k) ==
    IF k = 0 THEN 0
    ELSE IF k > Cardinality(NlPositions(s)) THEN Len(s) + 1
    ELSE CHOOSE p \in NlPositions(s) :
             Cardinality({ q \in NlPositions(s) : q < p }) = k - 1

(* the k-th line of s: the text between newline k - 1 and newline k *)
LineK(s, k) == SubSeq(s, NthNl(s, k - 1) + 1, NthNl(s, k) - 1)

(* the raw line a row shows: the sign column and the code column together *)
RowRaw(row) ==
    IF row.kind \in {"add", "del"} THEN <<row.sign>> \o row.text ELSE row.text

BeginsHunk(l) == Len(l) >= 2 /\ l[1] = "@" /\ l[2] = "@"

BeginsWith(l, c) == Len(l) >= 1 /\ l[1] = c

(* the loop is about to consume a line *)
AtLine == pc = "loop" /\ i < Len(lines)

(* the line number a content row shows for commenting *)
RowNumber(row) == IF row.kind = "del" THEN row.old ELSE row.new

----------------------------------------------------------------------------
(* C1: parse emits exactly one row per line of the patch, in input order:   *)
(* after k lines are consumed there are k rows, the finished output has as  *)
(* many rows as the patch has lines (newlines + 1), and the k-th row is     *)
(* keyed by index k - 1 and shows the k-th line.                            *)
C1_RowPerLine ==
    /\ Len(rendered) = i
    /\ pc = "shown" => Len(rendered) = NumLines(patch)
    /\ \A k \in 1..Len(rendered) :
          /\ rendered[k].idx = k - 1
          /\ RowRaw(rendered[k]) = LineK(patch, k)

C1_Witness ==
    /\ pc = "shown"
    /\ Len(rendered) = 3
    /\ rendered[1].kind = "hunk"
    /\ rendered[2].kind = "add"
    /\ rendered[3].text = <<>>

(* C2: a well-formed hunk header @@ -O[,OC] +N[,NC] @@ is emitted as a      *)
(* hunk-header row without line numbers, leaves oldLine = O and newLine = N *)
(* at the end of its iteration whatever the counters were, and a context    *)
(* line that follows it is numbered old = O, new = N.                       *)
C2_HunkReset ==
    \A h \in HeaderArgs \cup {<<5, NULL, 6, NULL>>} :
        \A k \in 1..Len(rendered) :
            lines[k] = MkHeader(h[1], h[2], h[3], h[4]) =>
                /\ rendered[k].kind = "hunk"
                /\ rendered[k].old = NULL /\ rendered[k].new = NULL
                /\ rendered[k].text = lines[k]
                /\ (k = i => oldLine = h[1] /\ newLine = h[3])
                /\ (k < Len(rendered) /\ rendered[k + 1].kind = "ctx" =>
                       rendered[k + 1].old = h[1] /\ rendered[k + 1].new = h[3])

C2_Witness ==
    /\ i = 3
    /\ lines[1] = MkHeader(10, 5, 20, 5)
    /\ rendered[2].kind = "ctx" /\ rendered[2].old = 10 /\ rendered[2].new = 20
    /\ lines[3] = MkHeader(1, 3, 1, 4)
    /\ oldLine = 1 /\ newLine = 1

(* C3: the end-to-end patch yields header (counters 1, 1), context(1, 1),   *)
(* deletion(old 2), addition(new 2), addition(new 3), context(3, 4): the    *)
(* context line has consumed old line 1, so the deletion is old line 2 and  *)
(* the last context line old line 3. A click on the addition row with       *)
(* new = 2 picks line 2.                                                    *)
C3_EndToEndAmended ==
    patch = E2EPatch =>
        /\ (i = 1 => oldLine = 1 /\ newLine = 1)
        /\ (pc = "shown" =>
              /\ [k \in 1..Len(rendered) |->
                     <<rendered[k].kind, rendered[k].old, rendered[k].new>>]
                 = << <<"hunk", NULL, NULL>>, <<"ctx", 1, 1>>, <<"del", 2, NULL>>,
                      <<"add", NULL, 2>>, <<"add", NULL, 3>>, <<"ctx", 3, 4>> >>
              /\ (lastClick.row = 4 =>
                     lastClick.invoked /\ lastClick.arg = 2 /\ selectedLine = 2))

(* C3 as stated: deletion(old 1) and a last context row (old 2, new 4) *)
C3_EndToEndAsStated ==
    patch = E2EPatch =>
        /\ (i = 1 => oldLine = 1 /\ newLine = 1)
        /\ (pc = "shown" =>
              /\ [k \in 1..Len(rendered) |->
                     <<rendered[k].kind, rendered[k].old, rendered[k].new>>]
                 = << <<"hunk", NULL, NULL>>, <<"ctx", 1, 1>>, <<"del", 1, NULL>>,
                      <<"add", NULL, 2>>, <<"add", NULL, 3>>, <<"ctx", 2, 4>> >>
              /\ (lastClick.row = 4 =>
                     lastClick.invoked /\ lastClick.arg = 2 /\ selectedLine = 2))

C3_Witness ==
    /\ patch = E2EPatch
    /\ pc = "shown"
    /\ lastClick.row = 4
    /\ selectedLine = 2

(* C4: a click resolves to the row's new-file number whenever one is        *)
(* present, else to its old-file number whenever one is present, and does   *)
(* not invoke onPickLine only when neither is present, for every value of   *)
(* the numbers, 0 included.                                                 *)
C4_ResolvePreference ==
    lastClick.row # 0 =>
        LET row == rendered[lastClick.row]
        IN  /\ (row.new # NULL => lastClick.invoked /\ lastClick.arg = row.new)
            /\ (row.new = NULL /\ row.old # NULL =>
                   lastClick.invoked /\ lastClick.arg = row.old)
            /\ (row.new = NULL /\ row.old = NULL => ~lastClick.invoked)

(* C5: only a click on a hunk-header row is refused: a click on any         *)
(* addition, deletion or context row invokes onPickLine with the number     *)
(* that row shows.                                                          *)
C5_RefusalOnlyForHeaders ==
    \A k \in 1..Len(rendered) :
        (lastClick.row = k /\ rendered[k].kind \in {"add", "del", "ctx"}) =>
            /\ lastClick.invoked
            /\ selectedLine = RowNumber(rendered[k])

(* C6: a line that begins with @@ and does not match the hunk-header        *)
(* pattern is emitted as a hunk-header row with its text unmodified, both   *)
(* counters keep their values, and the loop goes on to the next line.       *)
C6_MalformedHeaderKeepsCounters ==
    [][ (AtLine /\ lines[i + 1] \in MalformedLines) =>
            /\ oldLine' = oldLine
            /\ newLine' = newLine
            /\ rendered' = Append(rendered,
                   [kind |-> "hunk", idx |-> i, old |-> NULL, new |-> NULL,
                    sign |-> "", text |-> lines[i + 1]])
            /\ i' = i + 1
            /\ pc' = "loop" ]_vars

C6_Witness ==
    /\ pc = "shown"
    /\ Len(lines) = 3
    /\ lines[1] = MkHeader(10, 5, 20, 5)
    /\ lines[2] \in MalformedLines
    /\ rendered[2].kind = "hunk"
    /\ rendered[3].kind = "ctx" /\ rendered[3].old = 10 /\ rendered[3].new = 20

(* C7: a line beginning with + is emitted as an addition numbered with the  *)
(* value newLine had before the line and without an old-file number; then   *)
(* newLine is 1 larger and oldLine is unchanged.                            *)
C7_Addition ==
    [][ (AtLine /\ BeginsWith(lines[i + 1], "+")) =>
            /\ Len(rendered') = Len(rendered) + 1
            /\ rendered'[Len(rendered')].kind = "add"
            /\ rendered'[Len(rendered')].new = newLine
            /\ rendered'[Len(rendered')].old = NULL
            /\ newLine' = newLine + 1
            /\ oldLine' = oldLine ]_vars

C7_Witness ==
    /\ i = 2
    /\ lines[1] = MkHeader(10, 5, 20, 5)
    /\ rendered[2].kind = "add" /\ rendered[2].new = 20 /\ rendered[2].old = NULL
    /\ newLine = 21 /\ oldLine = 10

(* C8: a line beginning with - is emitted as a deletion numbered with the   *)
(* value oldLine had before the line and without a new-file number; then    *)
(* oldLine is 1 larger and newLine is unchanged.                            *)
C8_Deletion ==
    [][ (AtLine /\ BeginsWith(lines[i + 1], "-")) =>
            /\ Len(rendered') = Len(rendered) + 1
            /\ rendered'[Len(rendered')].kind = "del"
            /\ rendered'[Len(rendered')].old = oldLine
            /\ rendered'[Len(rendered')].new = NULL
            /\ oldLine' = oldLine + 1
            /\ newLine' = newLine ]_vars

C8_Witness ==
    /\ i = 2
    /\ lines[1] = MkHeader(10, 5, 20, 5)
    /\ rendered[2].kind = "del" /\ rendered[2].old = 10 /\ rendered[2].new = NULL
    /\ oldLine = 11 /\ newLine = 20

(* C9: a line beginning with none of @@, +, - (an empty line and any other  *)
(* text included) is emitted as a context row numbered old = oldLine and    *)
(* new = newLine as they were before the line; then both are 1 larger.      *)
C9_Context ==
    [][ (/\ AtLine
         /\ ~BeginsHunk(lines[i + 1])
         /\ ~BeginsWith(lines[i + 1], "+")
         /\ ~BeginsWith(lines[i + 1], "-")) =>
            /\ Len(rendered') = Len(rendered) + 1
            /\ rendered'[Len(rendered')].kind = "ctx"
            /\ rendered'[Len(rendered')].old = oldLine
            /\ rendered'[Len(rendered')].new = newLine
            /\ oldLine' = oldLine + 1
            /\ newLine' = newLine + 1 ]_vars

C9_Witness ==
    /\ i = 3
    /\ lines[1] = MkHeader(10, 5, 20, 5)
    /\ lines[2] = <<>>
    /\ lines[3] = <<"@">>
    /\ rendered[2].kind = "ctx" /\ rendered[2].old = 10 /\ rendered[2].new = 20
    /\ rendered[3].kind = "ctx" /\ rendered[3].old = 11 /\ rendered[3].new = 21
    /\ oldLine = 12 /\ newLine = 22

(* C10: in every output, addition rows carry a new-file number and no       *)
(* old-file number, deletion rows an old-file number and no new-file        *)
(* number, context rows both, hunk-header rows neither; so every row that   *)
(* is not a header carries at least one number.                             *)
C10_NumberPresence ==
    \A k \in 1..Len(rendered) :
        LET row == rendered[k]
        IN  /\ row.kind \in {"hunk", "add", "del", "ctx"}
            /\ (row.kind = "add"  => row.new # NULL /\ row.old = NULL)
            /\ (row.kind = "del"  => row.old # NULL /\ row.new = NULL)
            /\ (row.kind = "ctx"  => row.old # NULL /\ row.new # NULL)
            /\ (row.kind = "hunk" => row.old = NULL /\ row.new = NULL)
            /\ (row.kind # "hunk" => row.old # NULL \/ row.new # NULL)

C10_Witness ==
    /\ pc = "shown"
    /\ \A t \in {"hunk", "add", "del", "ctx"} :
          \E k \in 1..Len(rendered) : rendered[k].kind = t

(* the hunk headers of the pool, as <<O, OC, N, NC>>, the embedded one included *)
AllHeaderArgs == HeaderArgs \cup {<<5, NULL, 6, NULL>>}

(* sub occurs in l *)
Contains(l, sub) ==
    \E p \in 0..(Len(l) - Len(sub)) : SubSeq(l, p + 1, p + Len(sub)) = sub

(* no hunk-header row among rows j..k *)
SameHunk(j, k) == \A m \in j..k : rendered[m].kind # "hunk"

(* C11: within a hunk the counters never decrease; a content line advances  *)
(* them by (0, +1) when it is shown as an addition, (+1, 0) as a deletion,  *)
(* (+1, +1) as context; so the old numbers, and the new numbers, of the     *)
(* content rows between two headers are non-decreasing.                     *)
C11_MonotoneWithinHunk ==
    /\ [][ (AtLine /\ ~BeginsHunk(lines[i + 1])) =>
              LET row == rendered'[Len(rendered')]
              IN  /\ row.kind \in {"add", "del", "ctx"}
                  /\ oldLine' >= oldLine /\ newLine' >= newLine
                  /\ (row.kind = "add" => oldLine' = oldLine /\ newLine' = newLine + 1)
                  /\ (row.kind = "del" => oldLine' = oldLine + 1 /\ newLine' = newLine)
                  /\ (row.kind = "ctx" => oldLine' = oldLine + 1 /\ newLine' = newLine + 1)
          ]_vars
    /\ [](\A j, k \in 1..Len(rendered) :
             (j < k /\ SameHunk(j, k)) =>
                 /\ (rendered[j].old # NULL /\ rendered[k].old # NULL =>
                        rendered[j].old <= rendered[k].old)
                 /\ (rendered[j].new # NULL /\ rendered[k].new # NULL =>
                        rendered[j].new <= rendered[k].new))

C11_Witness ==
    /\ patch = E2EPatch
    /\ pc = "shown"
    /\ rendered[2].old = 1 /\ rendered[3].old = 2 /\ rendered[6].old = 3
    /\ rendered[2].new = 1 /\ rendered[4].new = 2 /\ rendered[6].new = 4

(* C12: within a parse the counters change other than by the increments of  *)
(* 0 or 1 only on a line that begins with @@, and then only to the start    *)
(* values the header declares; a content line never resets or lowers them.  *)
C12_ResetOnlyAtHeader ==
    [][ (pc = "loop" /\ pc' = "loop" /\ i' = i + 1) =>
            IF BeginsHunk(lines[i + 1])
            THEN \/ oldLine' = oldLine /\ newLine' = newLine
                 \/ \E h \in AllHeaderArgs :
                        /\ Contains(lines[i + 1], MkHeader(h[1], h[2], h[3], h[4]))
                        /\ oldLine' = h[1]
                        /\ newLine' = h[3]
            ELSE /\ oldLine' - oldLine \in {0, 1}
                 /\ newLine' - newLine \in {0, 1} ]_vars

C12_Witness ==
    /\ i = 3
    /\ lines[1] = MkHeader(10, 5, 20, 5)
    /\ rendered[2].kind = "del" /\ rendered[2].old = 10
    /\ lines[3] = MkHeader(0, 0, 1, NULL)
    /\ oldLine = 0 /\ newLine = 1

(* C13: both counters are 0 when a parse starts, so the content rows that   *)
(* precede the first hunk header are numbered from 0: a deletion or context *)
(* row shows as old number the count of earlier deletion and context rows,  *)
(* an addition or context row as new number the count of earlier addition   *)
(* and context rows.                                                        *)
C13_CountersStartAtZero ==
    /\ (pc = "loop" /\ i = 0 => oldLine = 0 /\ newLine = 0)
    /\ \A k \in 1..Len(rendered) :
          SameHunk(1, k) =>
              /\ (rendered[k].kind \in {"del", "ctx"} =>
                     rendered[k].old =
                        Cardinality({ j \in 1..(k - 1) : rendered[j].kind \in {"del", "ctx"} }))
              /\ (rendered[k].kind \in {"add", "ctx"} =>
                     rendered[k].new =
                        Cardinality({ j \in 1..(k - 1) : rendered[j].kind \in {"add", "ctx"} }))

C13_Witness ==
    /\ pc = "shown"
    /\ prevRows # <<>>
    /\ Len(rendered) = 3
    /\ rendered[1].kind = "add" /\ rendered[1].new = 0
    /\ rendered[2].kind = "del" /\ rendered[2].old = 0
    /\ rendered[3].kind = "ctx" /\ rendered[3].old = 1 /\ rendered[3].new = 1

(* C14: the display text of every content row is the raw line without its  *)
(* leading marker character (+, - or the leading space of a context line).  *)
C14_MarkerStripped ==
    \A k \in 1..Len(rendered) :
        (\/ BeginsWith(LineK(patch, k), "+")
         \/ BeginsWith(LineK(patch, k), "-")
         \/ BeginsWith(LineK(patch, k), " ")) =>
            rendered[k].text = SubSeq(LineK(patch, k), 2, Len(LineK(patch, k)))

(* C15: parsing is deterministic and keeps no state between calls: a render *)
(* of the same patch returns the rows (kinds, numbers, texts) the previous  *)
(* render returned.                                                         *)
C15_SameRowsOnReparse ==
    (pc = "shown" /\ prevRows # <<>>) => rendered = prevRows

C15_Witness ==
    /\ pc = "shown"
    /\ prevRows # <<>>
    /\ Len(rendered) = 3
    /\ rendered[1].kind = "hunk" /\ rendered[2].kind = "add" /\ rendered[3].kind = "ctx"
    /\ rendered[3].new = 21
    /\ selectedLine = 20

(* C17: parse never fails and terminates: while the loop runs, the number   *)
(* of lines left, Len(lines) - i, is never negative; the loop body is       *)
(* defined on the next line whatever it is (it yields a row of one of the   *)
(* four kinds and counters that are numbers); every step of the loop        *)
(* consumes exactly that one line, so the lines left decrease by 1, and     *)
(* with no line left the only step returns all the rows.                    *)
C17_ParseTerminates ==
    /\ [](pc = "loop" =>
            /\ i <= Len(lines)
            /\ (i < Len(lines) =>
                   LET r == LoopBody(lines[i + 1], i, oldLine, newLine)
                   IN  /\ r.row.kind \in {"hunk", "add", "del", "ctx"}
                       /\ r.oldLine \in Nat /\ r.newLine \in Nat))
    /\ [][ pc = "loop" =>
              \/ /\ i < Len(lines)
                 /\ i' = i + 1
                 /\ Len(rendered') = i'
                 /\ pc' = "loop"
              \/ /\ i = Len(lines)
                 /\ i' = i
                 /\ rendered' = rendered /\ Len(rendered) = Len(lines)
                 /\ pc' = "shown" ]_vars

C17_Witness ==
    /\ pc = "shown"
    /\ Len(lines) = 3
    /\ i = 3
    /\ lines[1] \in MalformedLines
    /\ lines[2] = <<"@">>
    /\ lines[3] = <<>>

(* C16: the counts OC and NC of a hunk header are ignored: after a header   *)
(* @@ -O[,OC] +N[,NC] @@ the counters are O and N, and the rows of the hunk *)
(* are numbered from O and N by their kinds alone, the same for every       *)
(* present or absent OC and NC.                                             *)
C16_CountsIgnored ==
    \A O \in StartVals, N \in StartVals, OC \in CountVals, NC \in CountVals :
        (i >= 1 /\ lines[1] = MkHeader(O, OC, N, NC)) =>
            /\ (i = 1 => oldLine = O /\ newLine = N)
            /\ \A k \in 2..Len(rendered) :
                  /\ (rendered[k].kind \in {"del", "ctx"} =>
                         rendered[k].old = O +
                            Cardinality({ j \in 2..(k - 1) : rendered[j].kind \in {"del", "ctx"} }))
                  /\ (rendered[k].kind \in {"add", "ctx"} =>
                         rendered[k].new = N +
                            Cardinality({ j \in 2..(k - 1) : rendered[j].kind \in {"add", "ctx"} }))

C16_Witness ==
    /\ pc = "shown"
    /\ lines[1] = MkHeader(7, NULL, 1, 3)
    /\ Len(rendered) = 3
    /\ rendered[2].kind = "del" /\ rendered[2].old = 7
    /\ rendered[3].kind = "ctx" /\ rendered[3].old = 8 /\ rendered[3].new = 1

(* C19: parsing has no side effects: while the rows are built neither      *)
(* selectedLine nor the click record changes; selectedLine changes only in  *)
(* a step that is a click on a content row of the finished output, which    *)
(* invokes onPickLine once, with the value selectedLine takes.              *)
C19_ParseHasNoSideEffects ==
    [][ /\ (pc = "loop" => selectedLine' = selectedLine /\ lastClick' = lastClick)
        /\ (selectedLine' # selectedLine =>
               /\ pc = "shown" /\ pc' = "shown"
               /\ rendered' = rendered
               /\ lastClick'.row \in 1..Len(rendered)
               /\ rendered[lastClick'.row].kind # "hunk"
               /\ lastClick'.invoked
               /\ lastClick'.arg = selectedLine') ]_vars

C19_Witness ==
    /\ pc = "loop"
    /\ prevRows # <<>>
    /\ i = 2
    /\ rendered[2].kind = "add" /\ rendered[2].new = 1
    /\ selectedLine = 2

(* the kind of a line by its prefix: @@ before + before - before context *)
Classify(l) ==
    IF BeginsHunk(l) THEN "hunk"
    ELSE IF BeginsWith(l, "+") THEN "add"
    ELSE IF BeginsWith(l, "-") THEN "del"
    ELSE "ctx"

(* C20: the kind of a row depends only on the prefix of its own line: every *)
(* line starting with @@ gives a hunk-header row, matching the numeric      *)
(* pattern or not, then + gives an addition, - a deletion, anything else    *)
(* context, whatever the counters and the preceding lines are.              *)
C20_KindByPrefix ==
    \A k \in 1..Len(rendered) : rendered[k].kind = Classify(LineK(patch, k))

C20_Witness ==
    /\ pc = "shown"
    /\ Len(lines) = 3
    /\ lines[1] \in MalformedLines /\ rendered[1].kind = "hunk"
    /\ lines[2] = <<"@">> /\ rendered[2].kind = "ctx"
    /\ lines[3] = <<"+", "a">> /\ rendered[3].kind = "add"

(* the numbers the rows rs of the lines ls must show when the parse used    *)
(* counters of its own: counted from the start values of the last header    *)
(* before the row, or from 0 before the first header                        *)
LastHeader(rs, k) ==
    IF \E j \in 1..(k - 1) : rs[j].kind = "hunk"
    THEN CHOOSE j \in 1..(k - 1) :
             rs[j].kind = "hunk" /\ \A m \in (j + 1)..(k - 1) : rs[m].kind # "hunk"
    ELSE 0

StartOf(ls, j) ==
    IF j = 0 THEN <<0, 0>>
    ELSE LET h == CHOOSE h \in AllHeaderArgs : ls[j] = MkHeader(h[1], h[2], h[3], h[4])
         IN  <<h[1], h[3]>>

NumberedAlone(ls, rs) ==
    \A k \in 1..Len(rs) :
        LET j == LastHeader(rs, k)
            olds == Cardinality({ m \in (j + 1)..(k - 1) : rs[m].kind \in {"del", "ctx"} })
            news == Cardinality({ m \in (j + 1)..(k - 1) : rs[m].kind \in {"add", "ctx"} })
        IN  /\ (rs[k].kind \in {"del", "ctx"} => rs[k].old = StartOf(ls, j)[1] + olds)
            /\ (rs[k].kind \in {"add", "ctx"} => rs[k].new = StartOf(ls, j)[2] + news)

(* C18: the diff blocks of different files are independent: a step of one   *)
(* file's parse or a pick in one file's block leaves every other block      *)
(* (rows, counters, selectedLine, form line) unchanged; a pick sets the     *)
(* block's own selectedLine and form line; and under any interleaving each  *)
(* file's rows are numbered as a parse with counters of its own numbers     *)
(* them.                                                                    *)
C18_BlocksIndependent ==
    /\ [][ \A f \in Files :
              blocks'[f] # blocks[f] =>
                  /\ \A g \in Files \ {f} : blocks'[g] = blocks[g]
                  /\ (blocks'[f].selectedLine # blocks[f].selectedLine =>
                         blocks'[f].line = String(blocks'[f].selectedLine)) ]_vars
    /\ [](\A f \in Files : NumberedAlone(blocks[f].lines, blocks[f].rendered))

C18_Witness ==
    /\ \A f \in Files : blocks[f].pc = "shown"
    /\ blocks["a.ts"].selectedLine = 2 /\ blocks["a.ts"].line = <<"2">>
    /\ blocks["b.ts"].selectedLine = 10 /\ blocks["b.ts"].line = <<"1", "0">>
    /\ blocks["a.ts"].rendered[1].kind = "hunk"
    /\ blocks["b.ts"].rendered[3].old = 10

----------------------------------------------------------------------------
(* the string is empty or holds white space only *)
Blank(s) == \A k \in 1..Len(s) : IsSpace(s[k])

(* C21: a pick of a line n other than the block's selectedLine sets          *)
(* selectedLine to n and the line field to the text of n; a pick of the      *)
(* current selectedLine leaves the line field as it is, so a field cleared   *)
(* by a submit or edited by the admin is not restored by picking the same    *)
(* line again.                                                               *)
C21_PickPrefill ==
    [][\A n \in PickLines :
          (page'.event = <<"pick", n>> /\ page' # page) =>
              IF n # page.selectedLine
              THEN page'.selectedLine = n /\ page'.line = Dec(n)
              ELSE page'.selectedLine = n /\ page'.line = page.line]_vars

C21_Witness ==
    /\ page.event = <<"pick", 2>>
    /\ page.selectedLine = 2
    /\ page.added = 1
    /\ page.line = <<>>

(* C22: a submit with an empty or white-space-only message sends nothing and *)
(* leaves message, line and saving alone; any other submit sends one POST    *)
(* whose line is the number written in the line field, or null for an empty  *)
(* field; when the POST resolves, with whatever status, message and line are *)
(* cleared, saving is false and onAdded has been called once.                *)
C22_SubmitAndResolve ==
    [][/\ (page'.event = <<"submit">> /\ page' # page) =>
              IF Blank(page.message)
              THEN /\ page'.posts = page.posts
                   /\ page'.post = page.post
                   /\ page'.message = page.message
                   /\ page'.line = page.line
                   /\ page'.saving = page.saving
              ELSE /\ page'.posts = page.posts + 1
                   /\ page.post = NoReq /\ page'.post # NoReq
                   /\ page'.post.message = page.message
                   /\ IF page.line = <<>> THEN page'.post.line = NULL
                      ELSE page'.post.line # NULL /\ Dec(page'.post.line) = page.line
       /\ \A st \in PostStatuses :
              (page'.event = <<"resolved", st>> /\ page' # page) =>
                  /\ page'.message = <<>>
                  /\ page'.line = <<>>
                  /\ page'.saving = FALSE
                  /\ page'.added = page.added + 1
                  /\ page'.post = NoReq]_vars

C22_Witness ==
    /\ page.event = <<"resolved", 500>>
    /\ page.posts = 2
    /\ page.added = 2
    /\ page.selectedLine = 10
    /\ page.message = <<>> /\ page.line = <<>> /\ ~page.saving

(* C23: when the POST of the inline form or of the overall feedback form     *)
(* rejects, saving stays true from then on, the text entered is not cleared, *)
(* no refresh is asked for and no further POST is sent.                      *)
C23_RejectLeavesSaving ==
    [][/\ (page'.event = <<"rejected">> /\ page' # page) =>
              /\ page.saving /\ page'.saving
              /\ page'.message = page.message
              /\ page'.line = page.line
              /\ page'.added = page.added
       /\ page.rejected =>
              /\ page'.rejected /\ page'.saving
              /\ page'.added = page.added
              /\ page'.posts = page.posts
       /\ (page'.event = <<"rejectedOverall">> /\ page' # page) =>
              /\ page.savingOverall /\ page'.savingOverall
              /\ page'.overallText = page.overallText
              /\ page'.overallRefreshes = page.overallRefreshes
       /\ page.overallRejected =>
              /\ page'.overallRejected /\ page'.savingOverall
              /\ page'.overallRefreshes = page.overallRefreshes
              /\ page'.overallPosts = page.overallPosts]_vars

C23_Witness ==
    /\ page.rejected /\ page.saving
    /\ page.overallRejected /\ page.savingOverall
    /\ page.message = <<" ", "k">>
    /\ page.overallText = <<"k", " ">>
    /\ page.added = 1 /\ page.posts = 2

(* C24: sendingInlineComments is true exactly while a send request is in     *)
(* flight, at most one send request is in flight, every outcome of the       *)
(* request resets the flag, and a request is only issued with at least one   *)
(* inline comment loaded and the flag false.                                 *)
C24_SendingFlag ==
    /\ [](/\ Len(page.sendReqs) <= 1
          /\ page.sendingInlineComments <=> (page.sendReqs # <<>>))
    /\ [][/\ Len(page'.sendReqs) > Len(page.sendReqs) =>
                 page.inlineComments > 0 /\ ~page.sendingInlineComments
          /\ Len(page'.sendReqs) < Len(page.sendReqs) =>
                 ~page'.sendingInlineComments]_vars

C24_Witness ==
    /\ page.alert = <<"failed", "rejected">>
    /\ ~page.sendingInlineComments
    /\ page.sendReqs = <<>>
    /\ page.inlineComments = 0
    /\ page.loads = 2

(* C25 as stated: a non-ok response throws an Error with the body's truthy  *)
(* detail or else "Request failed: <status>", every ok response yields the  *)
(* parsed body, and Content-Type is among the headers only when a body is   *)
(* sent.                                                                    *)
C25_RequestAsStated ==
    (page.pc = "done" /\ page.status # 0) =>
        /\ ~ok(page.status) =>
               /\ page.result.kind = "error"
               /\ page.result.message =
                      IF page.body.json /\ page.body.detail \notin {UNDEF, <<>>}
                      THEN page.body.detail
                      ELSE <<"Request failed: ">> \o Dec(page.status)
        /\ ok(page.status) => page.result = Value(page.body)
        /\ "Content-Type" \in page.headers => page.sent # UNDEF

(* C25 amended: as stated, except that an ok response yields the parsed body *)
(* only when its body is JSON; an ok response whose body is not JSON makes   *)
(* request reject with the parse error.                                      *)
C25_RequestAmended ==
    (page.pc = "done" /\ page.status # 0) =>
        /\ ~ok(page.status) =>
               /\ page.result.kind = "error"
               /\ page.result.message =
                      IF page.body.json /\ page.body.detail \notin {UNDEF, <<>>}
                      THEN page.body.detail
                      ELSE <<"Request failed: ">> \o Dec(page.status)
        /\ (ok(page.status) /\ page.body.json) => page.result = Value(page.body)
        /\ (ok(page.status) /\ ~page.body.json) =>
               page.result.kind = "error" /\ page.result.message = SyntaxError
        /\ "Content-Type" \in page.headers <=> page.sent # UNDEF

C25_Witness ==
    /\ page.pc = "done"
    /\ page.options.method = "DELETE"
    /\ page.status = 204
    /\ page.body = NotJson
    /\ page.result = Error(SyntaxError)

(* C26: on the rendered start page Start is enabled exactly for a loaded     *)
(* status pending and Mark as Finished exactly for started, never both, and  *)
(* neither for any other status; a start request is issued only from a       *)
(* state whose loaded status is pending and a submit request only from one   *)
(* whose loaded status is started.                                           *)
C26_ButtonsByStatus ==
    /\ [](/\ ~(StartEnabled /\ SubmitEnabled)
          /\ (~page.loading /\ page.error = "null" /\ page.meta # "null") =>
                 /\ StartEnabled <=> page.meta = "pending"
                 /\ SubmitEnabled <=> page.meta = "started"
          /\ page.meta \notin {"pending", "started"} => ~StartEnabled /\ ~SubmitEnabled)
    /\ [][/\ page'.startPost > page.startPost => page.meta = "pending"
          /\ page'.submitPost > page.submitPost => page.meta = "started"]_vars

C26_Witness ==
    /\ page.event = "clickSubmit"
    /\ page.submitPost = 1
    /\ page.meta = "started"
    /\ page.clicks = 2

(* C27: once error is set the page renders the error only, Start and Mark as *)
(* Finished are not offered and no step clears error; a rejected start or    *)
(* submit POST sets error, leaves meta unchanged and issues no GET.          *)
C27_ErrorAbsorbing ==
    /\ [](page.error # "null" => ~page.loading /\ ~StartEnabled /\ ~SubmitEnabled)
    /\ [][/\ page.error # "null" => page'.error # "null"
          /\ (page'.event \in {"startPostFails", "submitPostFails"} /\ page' # page) =>
                 /\ page'.error # "null"
                 /\ page'.meta = page.meta
                 /\ page'.gets = page.gets]_vars

C27_Witness ==
    /\ page.event = "startGetOk"
    /\ page.error = "Failed to start"
    /\ page.meta = "started"
    /\ page.clicks = 2

(* C28 as stated: when no two requests were ever in flight together, the     *)
(* displayed list always belongs to activeTab.                               *)
C28_TabRaceAsStated ==
    page.peak <= 1 => page.shown \in {page.activeTab, "none"}

(* C28 amended: once no request is in flight, a displayed list of the other  *)
(* tab only follows requests that were in flight together (a tab switched    *)
(* while an earlier fetch, or the PUT of archive / unarchive, had not come   *)
(* back); with at most one request in flight at any time the list displayed  *)
(* when nothing is in flight is the list of activeTab or the empty list of a *)
(* failed load.                                                              *)
C28_TabRaceAmended ==
    (InFlight(page) = 0 /\ page.shown \notin {page.activeTab, "none"}) => page.peak >= 2

C28_Witness ==
    /\ InFlight(page) = 0
    /\ page.activeTab = "archived"
    /\ page.shown = "available"
    /\ page.error = "null"
    /\ page.peak = 2

(* C29: on the manage challenges page selectedId is null or the id of an     *)
(* assessment present in the list, after any sequence of select, save,       *)
(* overwrite, modal delete and delete operations.                            *)
C29_SelectedInList ==
    page.selectedId = "null" \/ page.selectedId \in page.assessments

====
